---- MODULE Spec2Model ----
(***************************************************************************)
(* Model of src/src/combat.ts: the declarative CombatStrategy table, the   *)
(* intent compiler BuiltCombatStrategy.prepare_macro, and the program      *)
(* assembler BuiltCombatStrategy (constructor and handle_monster).         *)
(*                                                                         *)
(* A Macro (libram) is a flat list of commands.  It is modelled as a       *)
(* sequence of entries [cond, body]: an entry with cond = m stands for     *)
(* "if monster m; body; endif" (Macro.if_), an entry with cond = Always for   *)
(* commands appended unconditionally (Macro.step).  A body is a sequence   *)
(* of commands <<op, argument>>.                                           *)
(***************************************************************************)
EXTENDS Integers, Sequences, FiniteSets, TLC

\* ------------------------------------------------------------------ bounds
\* Number of calls made in one encounter setup: builder calls on the
\* CombatStrategy and handle_monster calls on the BuiltCombatStrategy together.
MaxCalls == 3

\* ------------------------------------------------------- external catalog
None == "undefined"
\* An optional Macro or record is a sequence of length 0 (undefined) or 1.
Undefined == <<>>
Some(v) == <<v>>
Always == "always"

Monsters == {"m1", "m2"}

\* monsterDefense(monster) and monster.physicalResistance of the catalog.
monsterDefense(m) == IF m = "m1" THEN 8 ELSE 4
physicalResistance(m) == IF m = "m1" THEN 69 ELSE 70

\* Values of myBuffedstat(weaponType(equippedItem(weapon))): with the
\* defenses above, 8 * 1.25 = 10 and 4 * 1.25 = 5, so 4 is below both
\* products, 5 and 10 are the equality cases, 9 lies between.
Stats == {4, 5, 9, 10}
\* Values of weaponType(equippedItem(weapon)).
WeaponTypes == {"muscle", "moxie"}

\* Argument lists (...monsters) the builder methods are called with.
MonsterLists == {<<>>, <<"m1">>, <<"m2">>, <<"m1", "m2">>, <<"m2", "m1">>}

\* enum MonsterStrategy
MonsterStrategy == {"RunAway", "Kill", "KillHard", "Banish", "Abort"}

\* Custom Macro values handed to CombatStrategy.macro / handle_monster:
\* one that runs to its end and one that ends in repeat.
CustomMacros == {"P_item", "P_loop"}
MacroOf(p) ==
  IF p = "P_item"
    THEN << [cond |-> Always, body |-> << <<"item", "gadget">> >>] >>
    ELSE << [cond |-> Always,
             body |-> << <<"skill", "Stuffed Mortar Shell">>, <<"repeat", "">> >>] >>

\* BanishSource.do (an Item or a Skill) and RunawaySource.do (a Macro).
BanishSources == {None, "Item", "Skill"}
RunawaySources == {None, "R_skill"}
RunawayDo(r) == << [cond |-> Always, body |-> << <<"skill", "Peel Out">> >>] >>
\* wanderers: WandererSource[] (the monster of each)
WandererLists == {<<>>, <<"m1">>, <<"m2">>}

VARIABLES
  default_strategy,  \* CombatStrategy.default_strategy
  default_macro,     \* CombatStrategy.default_macro (None when unset)
  strategy,          \* CombatStrategy.strategy: Map in insertion order
  macros,            \* CombatStrategy.macros: Map in insertion order
  calls,             \* number of builder and handle_monster calls made
  lastCall,          \* the most recent call and whether it threw
  stat,              \* myBuffedstat(weaponType(equippedItem(weapon))) of the encounter
  wtype,             \* weaponType(equippedItem(weapon)) of the encounter
  built,             \* whether the BuiltCombatStrategy has been constructed
  macro,             \* BuiltCombatStrategy.macro
  use_banish,        \* BuiltCombatStrategy.use_banish (None when undefined)
  use_runaway,       \* BuiltCombatStrategy.use_runaway (None when undefined)
  wanderers,         \* the wanderers the constructor was given
  handled,           \* per monster, the argument of the latest handle_monster
  compiled,          \* the Macro the latest prepare_macro call returned
  fight              \* the latest replay of a Macro by the turn engine

tvars == <<default_strategy, default_macro, strategy, macros>>
envvars == <<stat, wtype>>
bvars == <<built, macro, use_banish, use_runaway, wanderers, handled>>
vars == <<default_strategy, default_macro, strategy, macros, calls, lastCall,
          stat, wtype, built, macro, use_banish, use_runaway, wanderers,
          handled, compiled, fight>>

\* ------------------------------------------------ Map<Monster, V> (ES6)
\* A Map is a sequence of [key, value] in insertion order with unique keys.
MapHas(map, k) == \E i \in 1..Len(map) : map[i].key = k
MapGet(map, k) ==
  IF MapHas(map, k)
    THEN map[CHOOSE i \in 1..Len(map) : map[i].key = k].value
    ELSE None
\* A set that appends without looking for the key.
MapSet_append(map, k, v) == Append(map, [key |-> k, value |-> v])

\* Map.prototype.set: overwrite in place, or append a new key.
MapSet(map, k, v) ==
  IF MapHas(map, k)
    THEN [i \in 1..Len(map) |->
           IF map[i].key = k THEN [key |-> k, value |-> v] ELSE map[i]]
    ELSE Append(map, [key |-> k, value |-> v])
MapKeys(map) == [i \in 1..Len(map) |-> map[i].key]
MapValues(map) == [i \in 1..Len(map) |-> map[i].value]

\* for (const monster of monsters) map.set(monster, v)
RECURSIVE SetAll(_, _, _)
SetAll(map, monsters, v) ==
  IF monsters = <<>> THEN map
  ELSE SetAll(MapSet(map, Head(monsters), v), Tail(monsters), v)

\* ------------------------------------------------------- CombatStrategy
Call(op, arg, monsters, threw) ==
  [op |-> op, arg |-> arg, monsters |-> monsters, threw |-> threw]

\* An apply that sets the default whatever the list.
apply_default_always(strat, monsters) ==
  /\ default_strategy' = strat
  /\ strategy' = SetAll(strategy, monsters, strat)
  /\ UNCHANGED <<default_macro, macros>>

\* CombatStrategy.apply(strategy, ...monsters)
apply(strat, monsters) ==
  /\ default_strategy' = IF Len(monsters) = 0 THEN strat ELSE default_strategy
  /\ strategy' = SetAll(strategy, monsters, strat)
  /\ UNCHANGED <<default_macro, macros>>

\* CombatStrategy.macro(strategy: Macro, ...monsters)
CombatStrategy_macro(p, monsters) ==
  /\ default_macro' = IF Len(monsters) = 0 THEN p ELSE default_macro
  /\ macros' = SetAll(macros, monsters, p)
  /\ UNCHANGED <<default_strategy, strategy>>

\* A builder call: the table is built before it is handed to the assembler.
Called(op, arg, monsters, threw) ==
  /\ ~built
  /\ calls < MaxCalls
  /\ calls' = calls + 1
  /\ lastCall' = Call(op, arg, monsters, threw)
  /\ UNCHANGED <<envvars, bvars, compiled, fight>>

Apply(strat, monsters) ==
  /\ Called("apply", strat, monsters, FALSE)
  /\ apply(strat, monsters)

kill(monsters) ==
  /\ Called("kill", "Kill", monsters, FALSE)
  /\ apply("Kill", monsters)

killHard(monsters) ==
  /\ Called("killHard", "KillHard", monsters, FALSE)
  /\ apply("KillHard", monsters)

\* A banish without the length check.
banish_unchecked(monsters) ==
  /\ Called("banish", "Banish", monsters, FALSE)
  /\ apply("Banish", monsters)

\* CombatStrategy.banish: throws before any change when no monster is given.
banish(monsters) ==
  IF Len(monsters) = 0
    THEN /\ Called("banish", "Banish", monsters, TRUE)
         /\ UNCHANGED tvars
    ELSE /\ Called("banish", "Banish", monsters, FALSE)
         /\ apply("Banish", monsters)

flee(monsters) ==
  /\ Called("flee", "RunAway", monsters, FALSE)
  /\ apply("RunAway", monsters)

abort(monsters) ==
  /\ Called("abort", "Abort", monsters, FALSE)
  /\ apply("Abort", monsters)

\* CombatStrategy.item(item, ...monsters): macro(new Macro().item(item), ...)
item(monsters) ==
  /\ Called("item", "P_item", monsters, FALSE)
  /\ CombatStrategy_macro("P_item", monsters)

MacroCall(p, monsters) ==
  /\ Called("macro", p, monsters, FALSE)
  /\ CombatStrategy_macro(p, monsters)

\* CombatStrategy.can(do_this)
can(do_this) ==
  \/ do_this = default_strategy
  \/ \E i \in 1..Len(strategy) : MapValues(strategy)[i] = do_this

\* CombatStrategy.where(do_this)
where(do_this) ==
  SelectSeq(MapKeys(strategy), LAMBDA key : MapGet(strategy, key) = do_this)

\* ------------------------------------------------------ Macro (libram)
\* Macro.step(other): the commands of other after those of m.  Adjacent
\* unconditional commands form one run.
Macro_step(m, other) ==
  IF m # <<>> /\ other # <<>> /\ m[Len(m)].cond = Always /\ other[1].cond = Always
    THEN SubSeq(m, 1, Len(m) - 1)
           \o << [cond |-> Always, body |-> m[Len(m)].body \o other[1].body] >>
           \o Tail(other)
    ELSE m \o other
Macro_cmd(m, op, arg) ==
  Macro_step(m, << [cond |-> Always, body |-> << <<op, arg>> >>] >>)
Macro_skill(m, s) == Macro_cmd(m, "skill", s)
Macro_trySkill(m, s) == Macro_cmd(m, "trySkill", s)
Macro_item(m, i) == Macro_cmd(m, "item", i)
Macro_tryItem(m, i) == Macro_cmd(m, "tryItem", i)
Macro_attack(m) == Macro_cmd(m, "attack", "")
Macro_repeat(m) == Macro_cmd(m, "repeat", "")
Macro_abort(m) == Macro_cmd(m, "abort", "")
Macro_runaway(m) == Macro_cmd(m, "runaway", "")

\* The commands of a Macro that holds no condition.
RECURSIVE Macro_commands(_)
Macro_commands(m) ==
  IF m = <<>> THEN <<>> ELSE Head(m).body \o Macro_commands(Tail(m))

\* Macro.if_(condition, ifTrue): "if condition; ifTrue; endif" after m.
Macro_if(m, condition, ifTrue) ==
  Append(m, [cond |-> condition, body |-> Macro_commands(ifTrue)])

\* The turn engine replaying a body: a fixed action that is not usable stops
\* the program with an error, a best-effort action that is not usable is
\* skipped, abort and repeat end the pass over the program.  The replay
\* follows the rounds in which the encounter goes on after each action.
RECURSIVE RunBody(_, _, _, _)
RunBody(body, i, unusable, trace) ==
  IF i > Len(body) THEN [trace |-> trace, end |-> "fall"]
  ELSE LET c == body[i] IN
    CASE c[1] \in {"skill", "item"} ->
           IF c[2] \in unusable
             THEN [trace |-> trace, end |-> "error"]
             ELSE RunBody(body, i + 1, unusable, Append(trace, c))
      [] c[1] \in {"trySkill", "tryItem"} ->
           IF c[2] \in unusable
             THEN RunBody(body, i + 1, unusable, trace)
             ELSE RunBody(body, i + 1, unusable, Append(trace, c))
      [] c[1] \in {"abort", "repeat"} ->
           [trace |-> Append(trace, c), end |-> c[1]]
      [] OTHER -> RunBody(body, i + 1, unusable, Append(trace, c))

\* The turn engine replaying a Macro against opponent o: entries are taken
\* in order, a conditional entry is entered when its monster is o and
\* control goes on after its endif.  entered lists the entries entered.
RECURSIVE Run(_, _, _, _, _, _)
Run(m, i, o, unusable, trace, entered) ==
  IF i > Len(m) THEN [trace |-> trace, entered |-> entered, end |-> "fall"]
  ELSE IF m[i].cond \notin {Always, o}
    THEN Run(m, i + 1, o, unusable, trace, entered)
    ELSE LET r == RunBody(m[i].body, 1, unusable, trace) IN
      IF r.end # "fall"
        THEN [trace |-> r.trace, entered |-> Append(entered, i), end |-> r.end]
        ELSE Run(m, i + 1, o, unusable, r.trace, Append(entered, i))

Replay(m, o, unusable) == Run(m, 1, o, unusable, <<>>, <<>>)

\* -------------------------------------------------- BuiltCombatStrategy
\* A prefix with two of its steps exchanged.
delevel_swapped ==
  Macro_tryItem(Macro_trySkill(Macro_tryItem(Macro_trySkill(Macro_trySkill(
    Macro_skill(<<>>, "Curse of Weaksauce"),
    "Micrometeorite"), "Pocket Crumbs"), "Rain-Doh indigo cup"),
    "Summon Love Mosquito"), "Time-Spinner")

\* const delevel = new Macro().skill(...).trySkill(...)...
delevel ==
  Macro_tryItem(Macro_trySkill(Macro_tryItem(Macro_trySkill(Macro_trySkill(
    Macro_skill(<<>>, "Curse of Weaksauce"),
    "Pocket Crumbs"), "Micrometeorite"), "Rain-Doh indigo cup"),
    "Summon Love Mosquito"), "Time-Spinner")

Saucegeyser == Macro_repeat(Macro_skill(delevel, "Saucegeyser"))

\* An upgrade that also fires when defense * 1.25 equals the buffed stat.
upgrade_ge(env, strat, monster) ==
  IF /\ strat = "Kill"
     /\ monster # None
     /\ monsterDefense(monster) * 125 >= env.stat * 100
    THEN "KillHard" ELSE strat

\* "Upgrade for kills that happen to be difficult":
\* monsterDefense(monster) * 1.25 > myBuffedstat(...), on integers.
upgrade(env, strat, monster) ==
  IF /\ strat = "Kill"
     /\ monster # None
     /\ monsterDefense(monster) * 125 > env.stat * 100
    THEN "KillHard" ELSE strat

\* A Kill that asks for more than 70 resistance.
kill_macro_strict(monster) ==
  IF monster # None /\ physicalResistance(monster) > 70
    THEN Saucegeyser
    ELSE Macro_repeat(Macro_attack(delevel))

\* case MonsterStrategy.Kill
kill_macro(monster) ==
  IF monster # None /\ physicalResistance(monster) >= 70
    THEN Saucegeyser
    ELSE Macro_repeat(Macro_attack(delevel))

\* case MonsterStrategy.KillHard
killhard_macro(env, monster) ==
  IF \/ (monster # None /\ physicalResistance(monster) >= 70)
     \/ env.wtype # "muscle"
    THEN Saucegeyser
    ELSE Macro_repeat(Macro_skill(delevel, "Lunging Thrust-Smack"))

\* case MonsterStrategy.RunAway
runaway_macro(this) ==
  IF this.use_runaway = Undefined
    THEN Macro_repeat(Macro_attack(Macro_skill(Macro_runaway(<<>>), "Saucestorm")))
    ELSE this.use_runaway[1]

\* A Banish that goes on with an empty Macro when there is no resource.
banish_macro_empty(this) ==
  IF this.use_banish = Undefined THEN <<>> ELSE this.use_banish[1]

\* case MonsterStrategy.Banish
banish_macro(this) ==
  IF this.use_banish = Undefined THEN Macro_abort(<<>>) ELSE this.use_banish[1]

\* BuiltCombatStrategy.prepare_macro(strategy, monster?).  this holds
\* use_banish and use_runaway, env the buffed stat and the weapon type read
\* from the game; monster is None when the argument is omitted.
prepare_macro(this, env, strat, monster) ==
  IF strat \in CustomMacros THEN MacroOf(strat)
  ELSE
    LET s == upgrade(env, strat, monster)
    IN CASE s = "RunAway" -> runaway_macro(this)
         [] s = "Kill" -> kill_macro(monster)
         [] s = "KillHard" -> killhard_macro(env, monster)
         [] s = "Banish" -> banish_macro(this)
         [] s = "Abort" -> Macro_abort(<<>>)

\* for (const wanderer of wanderers) macro = macro.if_(wanderer.monster, ...)
RECURSIVE AddWanderers(_, _, _, _)
AddWanderers(m, this, env, ws) ==
  IF ws = <<>> THEN m
  ELSE AddWanderers(Macro_if(m, Head(ws), prepare_macro(this, env, "KillHard", None)),
                    this, env, Tail(ws))

\* abstract.macros.forEach((value, key) => macro = macro.if_(key, value))
RECURSIVE AddMacros(_, _)
AddMacros(m, map) ==
  IF map = <<>> THEN m
  ELSE AddMacros(Macro_if(m, Head(map).key, MacroOf(Head(map).value)), Tail(map))

\* abstract.strategy.forEach((strat, monster) =>
\*   macro = macro.if_(monster, prepare_macro(strat, monster)))
RECURSIVE AddStrategies(_, _, _, _)
AddStrategies(m, this, env, map) ==
  IF map = <<>> THEN m
  ELSE AddStrategies(
         Macro_if(m, Head(map).key,
                  prepare_macro(this, env, Head(map).value, Head(map).key)),
         this, env, Tail(map))

\* A constructor that adds the intents of the table before its custom macros.
Assemble_intents_first(this, env, ws) ==
  LET m1 == AddWanderers(<<>>, this, env, ws)
      m2 == AddStrategies(m1, this, env, strategy)
      m3 == AddMacros(m2, macros)
      m4 == IF default_macro # None THEN Macro_step(m3, MacroOf(default_macro)) ELSE m3
  IN Macro_step(m4, prepare_macro(this, env, default_strategy, None))

\* A constructor that adds the wanderers after the table's entries.
Assemble_wanderers_late(this, env, ws) ==
  LET m1 == AddMacros(<<>>, macros)
      m2 == AddStrategies(m1, this, env, strategy)
      m3 == AddWanderers(m2, this, env, ws)
      m4 == IF default_macro # None THEN Macro_step(m3, MacroOf(default_macro)) ELSE m3
  IN Macro_step(m4, prepare_macro(this, env, default_strategy, None))

\* The Macro the constructor assembles.
Assemble(this, env, ws) ==
  LET m1 == AddWanderers(<<>>, this, env, ws)
      m2 == AddMacros(m1, macros)
      m3 == AddStrategies(m2, this, env, strategy)
      m4 == IF default_macro # None THEN Macro_step(m3, MacroOf(default_macro)) ELSE m3
  IN Macro_step(m4, prepare_macro(this, env, default_strategy, None))

This == [use_banish |-> use_banish, use_runaway |-> use_runaway]
Env == [stat |-> stat, wtype |-> wtype]

\* new BuiltCombatStrategy(abstract, wanderers, banish, runaway), in an
\* encounter whose buffed stat is st and whose weapon type is wt.
Build(ws, b, r, st, wt) ==
  LET ub == IF b = "Item" THEN Some(Macro_item(<<>>, "banisher item"))
            ELSE IF b = "Skill" THEN Some(Macro_skill(<<>>, "banisher skill"))
            ELSE Undefined
      ur == IF r = None THEN Undefined ELSE Some(RunawayDo(r))
      this == [use_banish |-> ub, use_runaway |-> ur]
      env == [stat |-> st, wtype |-> wt]
  IN /\ ~built
     /\ built' = TRUE
     /\ use_banish' = ub
     /\ use_runaway' = ur
     /\ stat' = st
     /\ wtype' = wt
     /\ wanderers' = ws
     /\ macro' = Assemble(this, env, ws)
     /\ lastCall' = Call("build", None, <<>>, FALSE)
     /\ UNCHANGED <<tvars, calls, handled, compiled, fight>>

\* A handle_monster that adds its branch at the end of the Macro.
handle_monster_append(monster, strat) ==
  /\ built
  /\ calls < MaxCalls
  /\ calls' = calls + 1
  /\ macro' = Macro_if(macro, monster, prepare_macro(This, Env, strat, monster))
  /\ handled' = [handled EXCEPT ![monster] = strat]
  /\ compiled' = Undefined
  /\ fight' = Undefined
  /\ UNCHANGED <<tvars, lastCall, envvars, built, use_banish, use_runaway,
                 wanderers>>

\* A handle_monster that puts its Macro in front without the condition.
handle_monster_unconditional(monster, strat) ==
  /\ built
  /\ calls < MaxCalls
  /\ calls' = calls + 1
  /\ macro' = Macro_step(prepare_macro(This, Env, strat, monster), macro)
  /\ handled' = [handled EXCEPT ![monster] = strat]
  /\ compiled' = Undefined
  /\ fight' = Undefined
  /\ UNCHANGED <<tvars, lastCall, envvars, built, use_banish, use_runaway,
                 wanderers>>

\* BuiltCombatStrategy.handle_monster(monster, strategy)
handle_monster(monster, strat) ==
  /\ built
  /\ calls < MaxCalls
  /\ calls' = calls + 1
  /\ macro' = Macro_step(Macro_if(<<>>, monster, prepare_macro(This, Env, strat, monster)),
                         macro)
  /\ handled' = [handled EXCEPT ![monster] = strat]
  /\ compiled' = Undefined
  /\ fight' = Undefined
  /\ UNCHANGED <<tvars, lastCall, envvars, built, use_banish, use_runaway,
                 wanderers>>

\* A call of prepare_macro on the built strategy; the result is kept.
PrepareMacro(strat, monster) ==
  /\ built
  /\ compiled' = Some([strat |-> strat, monster |-> monster,
                       result |-> prepare_macro(This, Env, strat, monster)])
  /\ fight' = Undefined
  /\ UNCHANGED <<tvars, calls, lastCall, envvars, bvars>>

\* The turn engine replays the Macro prepare_macro returned.
Execute(unusable) ==
  /\ compiled # Undefined
  /\ fight' = Some([of |-> "compiled", opp |-> compiled[1].monster,
                    unusable |-> unusable,
                    run |-> Replay(compiled[1].result, compiled[1].monster, unusable)])
  /\ UNCHANGED <<tvars, calls, lastCall, envvars, bvars, compiled>>

\* The turn engine replays BuiltCombatStrategy.macro against opponent o.
Fight(o, unusable) ==
  /\ built
  /\ fight' = Some([of |-> "macro", opp |-> o, unusable |-> unusable,
                    run |-> Replay(macro, o, unusable)])
  /\ compiled' = Undefined
  /\ UNCHANGED <<tvars, calls, lastCall, envvars, bvars>>

\* new CombatStrategy()
Init ==
  /\ default_strategy = "RunAway"
  /\ default_macro = None
  /\ strategy = <<>>
  /\ macros = <<>>
  /\ calls = 0
  /\ lastCall = Call("new", None, <<>>, FALSE)
  /\ stat = None
  /\ wtype = None
  /\ built = FALSE
  /\ macro = <<>>
  /\ use_banish = Undefined
  /\ use_runaway = Undefined
  /\ wanderers = <<>>
  /\ handled = [m \in Monsters |-> None]
  /\ compiled = Undefined
  /\ fight = Undefined

TableNext ==
  \/ \E s \in MonsterStrategy, ms \in MonsterLists : Apply(s, ms)
  \/ \E ms \in MonsterLists : kill(ms)
  \/ \E ms \in MonsterLists : killHard(ms)
  \/ \E ms \in MonsterLists : banish(ms)
  \/ \E ms \in MonsterLists : flee(ms)
  \/ \E ms \in MonsterLists : abort(ms)
  \/ \E ms \in MonsterLists : item(ms)
  \/ \E p \in CustomMacros, ms \in MonsterLists : MacroCall(p, ms)

SpecTable == Init /\ [][TableNext]_vars

\* The abilities and items of the debuff prefix, and the sets of them that
\* are not usable in a replay.
DelevelAbilities ==
  {"Curse of Weaksauce", "Pocket Crumbs", "Micrometeorite", "Rain-Doh indigo cup",
   "Summon Love Mosquito", "Time-Spinner"}
UnusableSets ==
  {{}} \cup {{a} : a \in DelevelAbilities}
       \cup {DelevelAbilities \ {"Curse of Weaksauce"}, DelevelAbilities}

BuildAny ==
  \E ws \in WandererLists, b \in BanishSources, r \in RunawaySources,
     st \in Stats, wt \in WeaponTypes : Build(ws, b, r, st, wt)

\* The inputs of the pipeline specification: the table intents, the
\* handle_monster arguments and the live contexts it draws from.
PipelineLists == {<<>>, <<"m1">>, <<"m2">>}
PipelineIntents == {"Kill", "Banish", "Abort"}
PipelineOverrides == {"Kill", "Abort", "Banish", "P_item"}
BuildSome ==
  \E ws \in {<<>>, <<"m2">>}, b \in {None, "Item"}, r \in RunawaySources,
     st \in {9}, wt \in WeaponTypes : Build(ws, b, r, st, wt)

\* The intent compiler on its own: prepare_macro calls on a strategy built
\* from a fresh table, and replays of what they return.
CompileNext ==
  \/ BuildAny
  \/ \E x \in MonsterStrategy \cup CustomMacros, m \in Monsters \cup {None} :
       PrepareMacro(x, m)
  \/ \E u \in UnusableSets : Execute(u)

SpecCompile == Init /\ [][CompileNext]_vars

\* The whole pipeline: builder calls, assembly, runtime overrides, replays.
Next ==
  \/ \E s \in PipelineIntents, ms \in PipelineLists : Apply(s, ms)
  \/ \E p \in CustomMacros, ms \in PipelineLists : MacroCall(p, ms)
  \/ BuildSome
  \/ \E m \in Monsters, x \in PipelineOverrides : handle_monster(m, x)
  \/ \E o \in Monsters : Fight(o, {})

Spec == Init /\ [][Next]_vars

\* ---------------------------------------------------------------- claims
Range(seq) == {seq[i] : i \in 1..Len(seq)}
NoDuplicates(seq) == \A i, j \in 1..Len(seq) : seq[i] = seq[j] => i = j
ApplyOps == {"apply", "kill", "killHard", "flee", "abort", "banish"}
MacroOps == {"macro", "item"}
\* A step that is one builder call.
BuilderCall == ~built' /\ calls' = calls + 1

\* C4: banish() with no opponent throws and leaves default_strategy,
\* default_macro, strategy and macros as they were.
C4_BanishEmptyThrows ==
  [][(BuilderCall /\ lastCall'.op = "banish" /\ lastCall'.monsters = <<>>)
       => (lastCall'.threw /\ UNCHANGED tvars)]_vars

C4_Witness ==
  /\ lastCall.op = "banish" /\ lastCall.monsters = <<>> /\ lastCall.threw
  /\ calls = 2 /\ default_strategy = "Kill"

\* C5: a mutator changes only the entries it names.  With opponents listed,
\* the apply family sets strategy at exactly those and set_program (macro,
\* item) sets macros at exactly those; with none listed, only
\* default_strategy, respectively default_macro, changes.  macro and item
\* never touch strategy.
C5_MutatorsFrame ==
  [][BuilderCall =>
      LET c == lastCall'
          listed == Range(c.monsters)
      IN /\ (c.op \in ApplyOps /\ ~c.threw) =>
              /\ UNCHANGED <<default_macro, macros>>
              /\ IF listed = {}
                   THEN default_strategy' = c.arg /\ UNCHANGED strategy
                   ELSE /\ UNCHANGED default_strategy
                        /\ \A m \in Monsters :
                             MapGet(strategy', m) =
                               IF m \in listed THEN c.arg ELSE MapGet(strategy, m)
         /\ c.op \in MacroOps =>
              /\ UNCHANGED <<default_strategy, strategy>>
              /\ IF listed = {}
                   THEN default_macro' = c.arg /\ UNCHANGED macros
                   ELSE /\ UNCHANGED default_macro
                        /\ \A m \in Monsters :
                             MapGet(macros', m) =
                               IF m \in listed THEN c.arg ELSE MapGet(macros, m)]_vars

C5_Witness ==
  /\ lastCall.op = "macro" /\ lastCall.monsters = <<"m1">>
  /\ MapGet(strategy, "m1") = "Kill" /\ MapGet(macros, "m1") = "P_loop"

\* C9: where(Kill) lists, once each, exactly the opponents whose latest
\* intent was set by kill(...) (or apply(Kill, ...)), and a fresh table
\* can(RunAway).
C9_WhereKill ==
  /\ (calls = 0 => (can("RunAway") /\ where("Kill") = <<>>))
  /\ [](NoDuplicates(where("Kill")))
  /\ [][BuilderCall =>
         LET c == lastCall'
             listed == Range(c.monsters)
         IN Range(where("Kill")') =
              IF c.op \in ApplyOps /\ ~c.threw /\ c.arg = "Kill"
                THEN Range(where("Kill")) \cup listed
              ELSE IF c.op \in ApplyOps /\ ~c.threw
                THEN Range(where("Kill")) \ listed
              ELSE Range(where("Kill"))]_vars

C9_Witness ==
  /\ lastCall.op = "flee" /\ lastCall.monsters = <<"m1">>
  /\ where("Kill") = <<"m2">> /\ Len(strategy) = 2

\* The commands of the Macro the latest prepare_macro call returned.
Abort == << [cond |-> Always, body |-> << <<"abort", "">> >>] >>
Resistant(monster) == monster # None /\ physicalResistance(monster) >= 70
KillIntents == {"Kill", "KillHard"}
\* The replay of the latest prepare_macro result, when there is one.
Executed == {f \in Range(fight) : f.of = "compiled"}

\* C6: when defense * 1.25 exceeds the buffed stat, prepare_macro(Kill, o)
\* is the Macro of prepare_macro(KillHard, o); otherwise, equality included,
\* it is the Kill Macro, which differs from the KillHard one unless o
\* resists physical damage.
C6_KillUpgrade ==
  \A c \in Range(compiled) :
    (c.strat = "Kill" /\ c.monster # None) =>
      IF monsterDefense(c.monster) * 125 > stat * 100
        THEN c.result = prepare_macro(This, Env, "KillHard", c.monster)
        ELSE /\ c.result = kill_macro(c.monster)
             /\ ~Resistant(c.monster) =>
                  c.result # prepare_macro(This, Env, "KillHard", c.monster)

C6_Witness ==
  \E c \in Range(compiled) :
    /\ c.strat = "Kill" /\ c.monster = "m1" /\ stat = 9 /\ wtype = "muscle"
    /\ <<"skill", "Lunging Thrust-Smack">> \in Range(Macro_commands(c.result))

\* C7: for an opponent whose physical resistance is at least 70, the Macros
\* of Kill and of KillHard end with Saucegeyser and repeat and hold no
\* attack, whatever the buffed stat and the weapon type; replayed with the
\* curse usable they reach the repeat after casting Saucegeyser.
C7_ResistantFinish ==
  \A c \in Range(compiled) :
    (c.strat \in KillIntents /\ Resistant(c.monster)) =>
      LET b == Macro_commands(c.result) IN
        /\ Len(b) >= 2
        /\ b[Len(b)] = <<"repeat", "">>
        /\ b[Len(b) - 1] = <<"skill", "Saucegeyser">>
        /\ <<"attack", "">> \notin Range(b)
        /\ \A f \in Executed :
             "Curse of Weaksauce" \notin f.unusable =>
               /\ f.run.end = "repeat"
               /\ f.run.trace[Len(f.run.trace) - 1] = <<"skill", "Saucegeyser">>

C7_Witness ==
  \E c \in Range(compiled), f \in Executed :
    /\ c.strat = "Kill" /\ c.monster = "m2" /\ stat = 10 /\ wtype = "muscle"
    /\ f.unusable = {} /\ f.run.end = "repeat"

\* C8: with no banish resource, prepare_macro(Banish, o) is the Macro that
\* only aborts, for every opponent and for none; replayed, it aborts at once.
C8_BanishNoResource ==
  \A c \in Range(compiled) :
    (c.strat = "Banish" /\ use_banish = Undefined) =>
      /\ c.result = Abort
      /\ \A f \in Executed :
           f.run.end = "abort" /\ f.run.trace = << <<"abort", "">> >>

C8_Witness ==
  \E c \in Range(compiled), f \in Executed :
    /\ c.strat = "Banish" /\ c.monster = None /\ use_banish = Undefined
    /\ f.run.end = "abort"

\* C10 as stated: replayed with any of the debuff abilities unusable, the
\* Macro of Kill or KillHard goes on to its finishing move and repeats.
C10_DebuffsBestEffort ==
  \A c \in Range(compiled), f \in Executed :
    c.strat \in KillIntents => f.run.end = "repeat"

\* C10, amended: the Macro of Kill or KillHard starts with 6 steps in a fixed
\* order, the skill Curse of Weaksauce, which is not best-effort, then 5
\* best-effort steps, followed by the finishing move and repeat.  Replayed
\* with the curse usable, it runs the usable steps in order, skips the
\* others and reaches the repeat; with the curse unusable it stops there.
C10_PrefixAfterCurse ==
  \A c \in Range(compiled) :
    c.strat \in KillIntents =>
      LET b == Macro_commands(c.result) IN
        /\ Len(b) = 8
        /\ SubSeq(b, 1, 6) =
             << <<"skill", "Curse of Weaksauce">>, <<"trySkill", "Pocket Crumbs">>,
                <<"trySkill", "Micrometeorite">>, <<"tryItem", "Rain-Doh indigo cup">>,
                <<"trySkill", "Summon Love Mosquito">>, <<"tryItem", "Time-Spinner">> >>
        /\ b[7] \in {<<"attack", "">>, <<"skill", "Saucegeyser">>,
                     <<"skill", "Lunging Thrust-Smack">>}
        /\ b[8] = <<"repeat", "">>
        /\ \A f \in Executed :
             IF "Curse of Weaksauce" \in f.unusable
               THEN f.run.end = "error" /\ f.run.trace = <<>>
               ELSE /\ f.run.end = "repeat"
                    /\ f.run.trace = SelectSeq(b, LAMBDA x : x[2] \notin f.unusable)

C10_Witness ==
  \E c \in Range(compiled), f \in Executed :
    /\ c.strat = "Kill"
    /\ f.unusable = DelevelAbilities \ {"Curse of Weaksauce"}
    /\ Len(f.run.trace) = 3 /\ f.run.end = "repeat"

\* The replay of BuiltCombatStrategy.macro, when there is one.
Fought == {f \in Range(fight) : f.of = "macro"}
\* No handle_monster call has been made on the built strategy.
JustBuilt == built /\ \A m \in Monsters : handled[m] = None
\* The branches of the assembled Macro that are conditional on opponent o.
CondEntries(o) == {i \in 1..Len(macro) : macro[i].cond = o}
Compile(strat, monster) == Macro_commands(prepare_macro(This, Env, strat, monster))
Falls(body, unusable) == RunBody(body, 1, unusable, <<>>).end = "fall"
\* The opponent has a custom macro and the intent Kill in the table.
Both(o) == MapHas(macros, o) /\ MapGet(strategy, o) = "Kill"
\* The branch of the custom macro of o.
CustomEntry(o) ==
  {i \in CondEntries(o) :
     macro[i].body = Macro_commands(MacroOf(MapGet(macros, o)))}

\* C1 as stated: when o has a custom macro and the intent Kill, a replay
\* against o enters no branch for o that comes after the custom macro's.
C1_NeverRunsKill ==
  \A f \in Fought :
    (JustBuilt /\ Both(f.opp)) =>
      \A i \in Range(f.run.entered), p \in CustomEntry(f.opp) :
        ~(macro[i].cond = f.opp /\ i > p)

\* C1, amended: the custom macro's branch for o comes first and the Kill
\* branch for o is emitted after it; a replay against o (no wanderer) runs
\* the custom macro first, and enters the Kill branch exactly when the
\* custom macro runs to its end without abort or repeat.
C1_CustomThenKill ==
  \A o \in Monsters :
    (JustBuilt /\ Both(o)) =>
      \E p \in CondEntries(o), k \in CondEntries(o) :
        /\ CustomEntry(o) = {p}
        /\ {i \in CondEntries(o) : i > p} = {k}
        /\ macro[k].body = Compile("Kill", o)
        /\ \A f \in Fought :
             (f.opp = o /\ o \notin Range(wanderers)) =>
               /\ f.run.entered[1] = p
               /\ k \in Range(f.run.entered)
                    <=> Falls(macro[p].body, f.unusable)

C1_Witness ==
  \E f \in Fought :
    /\ JustBuilt /\ Both(f.opp) /\ f.opp \notin Range(wanderers)
    /\ MapGet(macros, f.opp) = "P_item"
    /\ Len(f.run.entered) = 2 /\ f.run.end = "repeat"

\* The rules that apply to o, highest priority first: the forced KillHard
\* of each wanderer that is o, the custom macro of o, the compiled intent of
\* o, and the default (the default macro, when set, followed by the compiled
\* default intent).
Rules(o) ==
  LET W == [i \in 1..Len(SelectSeq(wanderers, LAMBDA w : w = o)) |->
              Compile("KillHard", None)]
      P == IF MapHas(macros, o)
             THEN << Macro_commands(MacroOf(MapGet(macros, o))) >> ELSE <<>>
      I == IF MapHas(strategy, o)
             THEN << Compile(MapGet(strategy, o), o) >> ELSE <<>>
      D == (IF default_macro # None
              THEN Macro_commands(MacroOf(default_macro)) ELSE <<>>)
             \o Compile(default_strategy, None)
  IN W \o P \o I \o << D >>

\* C2 as stated: a replay of the assembled Macro against o applies one rule,
\* the first applicable one in the priority order wanderer, custom macro,
\* intent, default.
C2_FirstApplicableOnly ==
  \A f \in Fought :
    JustBuilt =>
      /\ Len(f.run.entered) = 1
      /\ macro[f.run.entered[1]].body = Rules(f.opp)[1]

\* C2, amended: a replay of the assembled Macro against o applies the rules
\* for o in the priority order wanderer, custom macro, intent, default: the
\* first rule it runs is the first applicable one, it goes on to the next
\* one in that order exactly when a rule runs to its end, and it stops at
\* the first rule that ends the pass.
C2_PriorityOrder ==
  \A f \in Fought :
    JustBuilt =>
      LET rules == Rules(f.opp)
          n == Len(f.run.entered)
      IN /\ 1 <= n /\ n <= Len(rules)
         /\ \A k \in 1..n : macro[f.run.entered[k]].body = rules[k]
         /\ \A k \in 1..(n - 1) : Falls(rules[k], f.unusable)
         /\ n < Len(rules) => ~Falls(rules[n], f.unusable)

C2_Witness ==
  \E f \in Fought :
    /\ JustBuilt /\ Len(Rules(f.opp)) = 3 /\ f.unusable = {}
    /\ MapGet(macros, f.opp) = "P_item" /\ MapGet(strategy, f.opp) = "Abort"
    /\ default_macro # None
    /\ f.run.entered = <<1, 2>> /\ f.run.end = "abort"

\* The first branch of the Macro for o, and the Macro the latest
\* handle_monster call naming o compiled.
FirstEntry(o) == CHOOSE i \in CondEntries(o) : \A j \in CondEntries(o) : i <= j
Handled == {o \in Monsters : handled[o] # None}

\* C3 as stated: after handle_monster calls, a replay against o applies the
\* rule of the latest call naming o and none of the earlier branches for o
\* (earlier handle_monster rules, table entries, wanderers).
C3_LatestOverridesAll ==
  \A f \in Fought :
    f.opp \in Handled =>
      /\ macro[FirstEntry(f.opp)].body = Compile(handled[f.opp], f.opp)
      /\ Range(f.run.entered) \cap CondEntries(f.opp) = {FirstEntry(f.opp)}

\* C3, amended: the rule of the latest handle_monster call naming o is the
\* first branch for o and a replay against o runs it first; when its Macro
\* ends in abort or repeat (always for Abort, Kill and KillHard) no other
\* rule is applied, and after handle_monster(o, Abort) the replay is abort
\* alone; when its Macro runs to its end the replay goes on to the next
\* earlier branch for o, if any, and otherwise to the default.
C3_LatestFirst ==
  \A o \in Handled :
    LET own == Compile(handled[o], o) IN
      /\ macro[FirstEntry(o)].body = own
      /\ \A f \in Fought :
           f.opp = o =>
             /\ f.run.entered[1] = FirstEntry(o)
             /\ ~Falls(own, f.unusable) => f.run.entered = << FirstEntry(o) >>
             /\ handled[o] \in {"Abort", "Kill", "KillHard"} => ~Falls(own, f.unusable)
             /\ handled[o] = "Abort" =>
                  f.run.trace = << <<"abort", "">> >> /\ f.run.end = "abort"
             /\ Falls(own, f.unusable) =>
                  /\ Len(f.run.entered) >= 2
                  /\ \A j \in CondEntries(o) \ {FirstEntry(o)} :
                       (\A i \in CondEntries(o) \ {FirstEntry(o)} : j <= i)
                         => f.run.entered[2] = j

C3_Witness ==
  \E f \in Fought :
    /\ f.opp = "m2" /\ handled["m2"] = "Abort" /\ "m2" \in Range(wanderers)
    /\ MapHas(strategy, "m2") /\ Cardinality(CondEntries("m2")) = 4
    /\ f.run.trace = << <<"abort", "">> >>

\* C11: the forced branch of a wanderer o holds the Macro of
\* prepare_macro(KillHard, o): a replay against a wanderer o runs that Macro
\* first, and when the physical resistance of o is at least 70 it casts
\* Saucegeyser before the repeat, whatever the weapon type.
C11_ForcedKillHard ==
  \A f \in Fought :
    (JustBuilt /\ f.opp \in Range(wanderers)) =>
      /\ macro[f.run.entered[1]].body = Compile("KillHard", f.opp)
      /\ Resistant(f.opp) =>
           f.run.trace[Len(f.run.trace) - 1] = <<"skill", "Saucegeyser">>

\* The replay r with every entered branch one place further on.
Shifted(r) ==
  [trace |-> r.trace, end |-> r.end,
   entered |-> [k \in 1..Len(r.entered) |-> r.entered[k] + 1]]

\* A step that is one handle_monster call.
HandleCall == built /\ built' /\ calls' = calls + 1

\* C12: handle_monster(o, x) puts one branch, conditional on o, in front of
\* the Macro and leaves the rest as it was, in its order; use_banish and
\* use_runaway do not change; and for every other opponent a replay runs the
\* same commands through the same branches as before the call.
C12_HandleFrame ==
  [][HandleCall =>
      /\ UNCHANGED <<use_banish, use_runaway>>
      /\ macro' # <<>> /\ Tail(macro') = macro
      /\ \E o \in Monsters :
           /\ macro'[1].cond = o
           /\ handled'[o] # None
           /\ \A o2 \in Monsters \ {o} :
                /\ handled'[o2] = handled[o2]
                /\ Replay(macro', o2, {}) = Shifted(Replay(macro, o2, {}))]_vars

C12_Witness ==
  \E f \in Fought :
    /\ f.opp = "m2" /\ handled["m1"] = "Abort" /\ handled["m2"] = None
    /\ MapGet(strategy, "m2") = "Kill"
    /\ macro[1].cond = "m1" /\ f.run.entered = <<2>> /\ f.run.end = "repeat"
====
